---------------------------- MODULE Spec2Model ----------------------------
(***************************************************************************)
(* Debt payoff simulation engine of Pathlight                              *)
(* (backend/app/shared/calculation_utils.py).                              *)
(*                                                                         *)
(* Money is a Python float in the source.  Here every amount is an integer *)
(* number of thousandths of a currency unit (1.00 = 1000), so the payoff   *)
(* threshold 0.01 is 10.  Float division is modelled by integer division   *)
(* rounding toward zero on non-negative operands.  APR is an integer       *)
(* number of percent.  Dates are day numbers.                              *)
(***************************************************************************)
EXTENDS Integers, Sequences, FiniteSets, TLC

\* ------------------------------------------------------------------ bounds
MaxDebts == 2
MaxOrderLen == 2

\* ------------------------------------------------------- program constants
MAX_MONTHS == 600
EPS == 10
tolerance == 1000
max_iterations == 50
SmallDebtBalance == 2000000
DefaultStress == 3
HighStress == 4
SignificantMonths == 3

SNOWBALL == "snowball"
AVALANCHE == "avalanche"
CUSTOM == "custom"
PayoffStrategy == {SNOWBALL, AVALANCHE, CUSTOM}

PAY_FASTER == "pay-faster"
LOWER_PAYMENT == "lower-payment"
REDUCE_INTEREST == "reduce-interest"
AVOID_DEFAULT == "avoid-default"
PrimaryGoal == {PAY_FASTER, LOWER_PAYMENT, REDUCE_INTEREST, AVOID_DEFAULT}

Calls == {1, 2}

\* ------------------------------------------------------------- input space
\* SimpleDebt records as the validators admit them: balance > 0,
\* 0 <= apr <= 100, minimum_payment > 0 and minimum_payment >= the first
\* month's interest.
calculate_monthly_interest(balance, apr) == ((balance * apr) \div 100) \div 12

SimpleDebtValid(d) ==
    /\ d.balance > 0
    /\ d.apr >= 0 /\ d.apr <= 100
    /\ d.minimum_payment > 0
    /\ d.minimum_payment >= calculate_monthly_interest(d.balance, d.apr)

\* Stored debts of one profile (ids are the database's unique _id):
\*   a, b tie on balance; a, c tie on APR; d's minimum payment equals its
\*   monthly interest; e leaves a residue below the payoff threshold.
DebtCatalogue ==
    { [id |-> "a", balance |-> 300000, apr |-> 12, minimum_payment |-> 100000],
      [id |-> "b", balance |-> 300000, apr |-> 24, minimum_payment |-> 150000],
      [id |-> "c", balance |-> 500000, apr |-> 12, minimum_payment |-> 200000],
      [id |-> "d", balance |-> 120000, apr |-> 10, minimum_payment |-> 1000],
      [id |-> "e", balance |-> 100005, apr |-> 0, minimum_payment |-> 100000] }

\* custom_order is a list of ids the caller sends: ids of debts (here a, b)
\* and ids that name no debt; the code only tests the latter for membership,
\* so "zz" stands for all of them.
OrderIds == {"a", "b"}
UnknownId == "zz"
PaymentDeltas == {0 - 1000, 0, 5, 100000}
PairDeltas == {0 - 1000, 0, 30000, 100000}
StartDates == {19723}
ScenarioIds == {"uuid-1", "uuid-2"}

SeqsUpTo(S, n) == UNION { [1..k -> S] : k \in 0..n }

Range(s) == { s[i] : i \in 1..Len(s) }

Injective(s) == \A i, j \in 1..Len(s) : s[i] = s[j] => i = j

\* A second profile: a small cheap debt and a large expensive one.
ScenarioCDebts ==
    { [id |-> "s", balance |-> 500000, apr |-> 10, minimum_payment |-> 20000],
      [id |-> "l", balance |-> 5000000, apr |-> 25, minimum_payment |-> 150000] }

\* A profile with the single debt of 1200 at 12%.
ScenarioADebts ==
    { [id |-> "A", balance |-> 1200000, apr |-> 12, minimum_payment |-> 100000] }

\* The debt lists simulate is called with: up to MaxDebts debts of the first
\* profile in any order, both debts of the second in either order, or the
\* single debt of 1200 at 12%.
DebtLists ==
    { s \in SeqsUpTo(DebtCatalogue, MaxDebts) :
        Injective(s) /\ \A i \in 1..Len(s) : SimpleDebtValid(s[i]) }
    \cup { s \in [1..2 -> ScenarioCDebts] :
             Injective(s) /\ \A i \in 1..Len(s) : SimpleDebtValid(s[i]) }
    \cup { <<d>> : d \in { x \in ScenarioADebts : SimpleDebtValid(x) } }

\* A third profile: one debt of 1200 at 0% whose minimum payment varies
\* (well below, just below, a quarter below and above the payment of 120
\* that takes 10 months, and above the balance).
MinimumPayments == {25000, 100000, 119000, 119750, 200000, 1300000}
ScenarioDDebts ==
    { [id |-> "x", balance |-> 1200000, apr |-> 0, minimum_payment |-> m] :
        m \in MinimumPayments }

\* The debt lists the optimizer is called with (the route refuses a profile
\* without debts): one debt of the first or the third profile, or both debts
\* of the second in either order.
OptimizerDebtLists ==
    { <<d>> : d \in { x \in DebtCatalogue \cup ScenarioDDebts : SimpleDebtValid(x) } }
    \cup { s \in [1..2 -> ScenarioCDebts] :
             Injective(s) /\ \A i \in 1..Len(s) : SimpleDebtValid(s[i]) }

TargetMonths == {1, 3, 12}

\* A fourth profile, for the recommender: small debts without interest and
\* expensive ones; r's balance is exactly 2000.
RecommenderDebts ==
    { [id |-> "p", balance |-> 500000, apr |-> 0, minimum_payment |-> 10000],
      [id |-> "p2", balance |-> 500000, apr |-> 0, minimum_payment |-> 20000],
      [id |-> "q", balance |-> 600000, apr |-> 0, minimum_payment |-> 10000],
      [id |-> "q36", balance |-> 1000000, apr |-> 36, minimum_payment |-> 31000],
      [id |-> "q60", balance |-> 1000000, apr |-> 60, minimum_payment |-> 51000],
      [id |-> "r", balance |-> 2000000, apr |-> 36, minimum_payment |-> 65000] }

RecommenderDebt(id) == CHOOSE d \in RecommenderDebts \cup ScenarioCDebts : d.id = id

\* The recommend route's requests: the profile's debts and the monthly
\* payment (the last one does not cover the minimum payment).
RecommendRequests ==
    { [debts |-> <<RecommenderDebt("p2"), RecommenderDebt("q36")>>,
       monthly_payment |-> 101000],
      [debts |-> <<RecommenderDebt("p"), RecommenderDebt("q"), RecommenderDebt("r")>>,
       monthly_payment |-> 235000],
      [debts |-> <<RecommenderDebt("p"), RecommenderDebt("q60")>>,
       monthly_payment |-> 111000],
      [debts |-> <<RecommenderDebt("r")>>, monthly_payment |-> 100000],
      [debts |-> <<RecommenderDebt("s"), RecommenderDebt("l")>>,
       monthly_payment |-> 270000],
      [debts |-> <<RecommenderDebt("r")>>, monthly_payment |-> 1000] }

\* Profile.stress_level is 1..5 or None; 0 stands for None.
StressLevels == 0..5
Profiles == [primary_goal : PrimaryGoal, stress_level : StressLevels]

DebtIds(ds) == { ds[i].id : i \in 1..Len(ds) }

CustomOrders(ds) ==
    SeqsUpTo((OrderIds \cap DebtIds(ds)) \cup {UnknownId}, MaxOrderLen)

RECURSIVE SumMin(_)
SumMin(s) == IF s = <<>> THEN 0
             ELSE s[1].minimum_payment + SumMin(Tail(s))

RECURSIVE SumBalance(_)
SumBalance(s) == IF s = <<>> THEN 0 ELSE s[1].balance + SumBalance(Tail(s))

Min2(x, y) == IF x <= y THEN x ELSE y
Max2(x, y) == IF x >= y THEN x ELSE y

\* ------------------------------------------------------- strategy ordering
\* key=lambda d: d.balance, or key=lambda d: d.apr with reverse=True
\* (variant: reverse=True is dropped, the APR order is ascending)
SortKeyNoReverse(d, by) == IF by = "apr_desc" THEN d.apr ELSE d.balance

SortKey(d, by) == IF by = "apr_desc" THEN 0 - d.apr ELSE d.balance

\* Python's sorted is stable (also with reverse=True): an element goes
\* behind every element whose key is not larger.
\* (variant: goes before the elements of equal key, an unstable sort)
InsertPosUnstable(rest, x, by) ==
    Cardinality({ i \in 1..Len(rest) : SortKey(rest[i], by) < SortKey(x, by) })

InsertPos(rest, x, by) ==
    Cardinality({ i \in 1..Len(rest) : SortKey(rest[i], by) <= SortKey(x, by) })

RECURSIVE sorted(_, _)
sorted(s, by) ==
    IF s = <<>> THEN <<>>
    ELSE LET rest == sorted(SubSeq(s, 1, Len(s) - 1), by)
             x == s[Len(s)]
             k == InsertPos(rest, x, by)
         IN SubSeq(rest, 1, k) \o <<x>> \o SubSeq(rest, k + 1, Len(rest))

\* debt_map = {d.id: d for d in debts}: the last debt with an id wins
DebtMapHas(ds, id) == \E i \in 1..Len(ds) : ds[i].id = id
DebtMapGet(ds, id) ==
    ds[CHOOSE i \in 1..Len(ds) :
         ds[i].id = id /\ \A j \in 1..Len(ds) : ds[j].id = id => j <= i]

RECURSIVE InCustomOrder(_, _)
InCustomOrder(ds, co) ==
    IF co = <<>> THEN <<>>
    ELSE IF DebtMapHas(ds, co[1])
         THEN <<DebtMapGet(ds, co[1])>> \o InCustomOrder(ds, Tail(co))
         ELSE InCustomOrder(ds, Tail(co))

NotInCustomOrder(ds, co) ==
    LET absent(d) == d.id \notin Range(co) IN SelectSeq(ds, absent)

\* (variant: the debts absent from custom_order are appended unsorted)
order_debts_unsorted_rest(ds, strat, co) ==
    IF strat = SNOWBALL THEN sorted(ds, "balance")
    ELSE IF strat = AVALANCHE THEN sorted(ds, "apr_desc")
    ELSE IF strat = CUSTOM THEN
        IF co = <<>> THEN sorted(ds, "balance")
        ELSE InCustomOrder(ds, co) \o NotInCustomOrder(ds, co)
    ELSE ds

order_debts_by_strategy(ds, strat, co) ==
    IF strat = SNOWBALL THEN sorted(ds, "balance")
    ELSE IF strat = AVALANCHE THEN sorted(ds, "apr_desc")
    ELSE IF strat = CUSTOM THEN
        IF co = <<>> THEN sorted(ds, "balance")
        ELSE InCustomOrder(ds, co) \o sorted(NotInCustomOrder(ds, co), "balance")
    ELSE ds


\* ------------------------------------------------------------------- state
VARIABLES
    debts,              \* the caller's debt list (shared by both calls)
    strategy,           \* the strategy tag
    custom_order,       \* custom debt order (<<>> models None and [])
    start_date,         \* start date, a day number
    monthly_payment,    \* monthly_payment[c]: the payment of call c
    pc,                 \* pc[c]: where call c stands
    working_debts,      \* working_debts[c]: the call's working copies
    schedule,           \* schedule[c]: the rows appended so far
    current_month,      \* current_month[c]
    total_interest,     \* total_interest[c]
    total_paid,         \* total_paid[c]
    remaining_payment,  \* remaining_payment[c]: unspent budget of the month
    result,             \* result[c]: the returned scenario or the error raised
    comparison,         \* what compare_scenarios has returned
    target_months,      \* the optimizer's target
    low,                \* the optimizer's bracket
    high,
    iteration,          \* the optimizer's loop iterations begun so far
    opt_pc,             \* where the optimizer stands
    optimal_payment,    \* what the optimizer has returned
    profile,            \* the recommender's profile
    recommendation,     \* what the recommender has returned
    confidence          \* what the confidence calculation has returned

inputs == <<debts, strategy, custom_order, start_date, monthly_payment>>
locals == <<working_debts, schedule, current_month, total_interest,
            total_paid, remaining_payment>>
simulator_vars == <<debts, strategy, custom_order, start_date, monthly_payment,
                    pc, working_debts, schedule, current_month, total_interest,
                    total_paid, remaining_payment, result>>
compare_vars == <<comparison>>
optimizer_vars == <<target_months, low, high, iteration, opt_pc, optimal_payment>>
recommender_vars == <<profile, recommendation, confidence>>
vars == <<debts, strategy, custom_order, start_date, monthly_payment, pc,
          working_debts, schedule, current_month, total_interest, total_paid,
          remaining_payment, result, comparison, target_months, low, high,
          iteration, opt_pc, optimal_payment, profile, recommendation,
          confidence>>

NoResult == [status |-> "none"]

\* --------------------------------------------------------- one month, code
\* lines 162-166 and 193-197: the payoff check
PaidOffCheck(wd, month) ==
    IF wd.remaining_balance <= EPS
    THEN [wd EXCEPT !.remaining_balance = 0, !.paid_off = TRUE,
                    !.months_to_payoff = month]
    ELSE wd

\* lines 144-148
\* (variant: the month's interest is charged on top of the minimum payment)
PaymentAmountPlusInterest(wd, monthly_interest) ==
    Min2(wd.debt.minimum_payment + monthly_interest,
         wd.remaining_balance + monthly_interest)

PaymentAmount(wd, monthly_interest) ==
    Min2(wd.debt.minimum_payment, wd.remaining_balance + monthly_interest)

\* lines 150-152
\* (variant: twice the month's interest is booked)
InterestPortionDoubled(monthly_interest, payment_amount) ==
    Min2(2 * monthly_interest, payment_amount)

InterestPortion(monthly_interest, payment_amount) ==
    Min2(monthly_interest, payment_amount)

\* lines 138-178: the minimum payment of one active debt and its schedule row
MinimumStep(wd, month, date) ==
    LET balance == wd.remaining_balance
        monthly_interest == calculate_monthly_interest(balance, wd.debt.apr)
        payment_amount == PaymentAmount(wd, monthly_interest)
        interest_portion == InterestPortion(monthly_interest, payment_amount)
        principal_portion == payment_amount - interest_portion
        wd1 == [wd EXCEPT !.remaining_balance = @ - principal_portion,
                          !.total_paid = @ + payment_amount,
                          !.total_interest = @ + interest_portion]
        wd2 == PaidOffCheck(wd1, month)
    IN [wd |-> wd2,
        payment |-> payment_amount,
        interest |-> interest_portion,
        item |-> [month |-> month,
                  payment_date |-> date,
                  debt_id |-> wd.debt.id,
                  payment |-> payment_amount,
                  principal |-> principal_portion,
                  interest |-> interest_portion,
                  remaining_balance |-> Max2(0, wd2.remaining_balance)]]

\* lines 134-178: the loop over working_debts, from index i on (each
\* intermediate state is bound to a variable, so it is evaluated once)
MinimumPhaseAt(st, i, month, date) ==
    IF st.working_debts[i].paid_off THEN st
    ELSE LET r == MinimumStep(st.working_debts[i], month, date)
         IN [working_debts |-> [st.working_debts EXCEPT ![i] = r.wd],
             schedule |-> Append(st.schedule, r.item),
             total_interest |-> st.total_interest + r.interest,
             total_paid |-> st.total_paid + r.payment,
             remaining_payment |-> st.remaining_payment - r.payment]

RECURSIVE MinimumPhaseFrom(_, _, _, _)
MinimumPhaseFrom(st, i, month, date) ==
    IF i > Len(st.working_debts) THEN st
    ELSE CHOOSE out \in { MinimumPhaseFrom(next, i + 1, month, date) :
                            next \in { MinimumPhaseAt(s, i, month, date) : s \in {st} } } :
           TRUE

Unpaid(wds) == { i \in 1..Len(wds) : ~wds[i].paid_off }

\* line 182: next((wd for wd in working_debts if not wd['paid_off']), None)
\* (variant: the last unpaid debt is taken)
TargetIndexLast(wds) == CHOOSE i \in Unpaid(wds) : \A j \in Unpaid(wds) : i >= j

TargetIndex(wds) == CHOOSE i \in Unpaid(wds) : \A j \in Unpaid(wds) : i <= j

\* line 186
\* (variant: the extra payment is not capped at the target's balance)
ExtraPaymentUncapped(remaining, target_wd) == remaining

\* (variant: half of what is left is applied)
ExtraPaymentHalf(remaining, target_wd) ==
    Min2(remaining \div 2, target_wd.remaining_balance)

ExtraPayment(remaining, target_wd) == Min2(remaining, target_wd.remaining_balance)

\* line 189: target_wd['remaining_balance'] -= extra_payment
\* (variant: the extra payment is added to the balance)
ApplyExtraAdds(balance, extra_payment) == balance + extra_payment

ApplyExtra(balance, extra_payment) == balance - extra_payment

\* lines 200-205: the last row of this debt id in the current month
RowsOf(sched, id, month) ==
    { k \in 1..Len(sched) : sched[k].debt_id = id /\ sched[k].month = month }

\* (variants: the row is left as it is; the row's principal is not raised)
UpdateRowSkipped(sched, id, month, extra_payment, balance) == sched

UpdateRowNoPrincipal(sched, id, month, extra_payment, balance) ==
    IF RowsOf(sched, id, month) = {} THEN sched
    ELSE LET k == CHOOSE k \in RowsOf(sched, id, month) :
                      \A j \in RowsOf(sched, id, month) : j <= k
         IN [sched EXCEPT ![k].payment = @ + extra_payment,
                          ![k].remaining_balance = Max2(0, balance)]

UpdateRow(sched, id, month, extra_payment, balance) ==
    IF RowsOf(sched, id, month) = {} THEN sched
    ELSE LET k == CHOOSE k \in RowsOf(sched, id, month) :
                      \A j \in RowsOf(sched, id, month) : j <= k
         IN [sched EXCEPT ![k].payment = @ + extra_payment,
                          ![k].principal = @ + extra_payment,
                          ![k].remaining_balance = Max2(0, balance)]

\* lines 181-205
SurplusStep(st, month) ==
    IF st.remaining_payment > EPS /\ Unpaid(st.working_debts) # {}
    THEN LET t == TargetIndex(st.working_debts)
             target_wd == st.working_debts[t]
             extra_payment == ExtraPayment(st.remaining_payment, target_wd)
             wd1 == [target_wd EXCEPT !.remaining_balance = ApplyExtra(@, extra_payment),
                                      !.total_paid = @ + extra_payment]
             wd2 == PaidOffCheck(wd1, month)
         IN [st EXCEPT !.working_debts[t] = wd2,
                       !.total_paid = @ + extra_payment,
                       !.schedule = UpdateRow(@, target_wd.debt.id, month,
                                              extra_payment, wd2.remaining_balance)]
    ELSE st

\* lines 104-115
WorkingCopy(debt) ==
    [debt |-> debt, remaining_balance |-> debt.balance, total_paid |-> 0,
     total_interest |-> 0, months_to_payoff |-> 0, paid_off |-> FALSE]

\* lines 208-219
DebtSummary(wd, start) ==
    [debt_id |-> wd.debt.id,
     original_balance |-> wd.debt.balance,
     total_paid |-> wd.total_paid,
     total_interest |-> wd.total_interest,
     months_to_payoff |-> wd.months_to_payoff,
     payoff_date |-> start + 30 * wd.months_to_payoff]

\* lines 222-228
ScenarioName(strat) ==
    IF strat = SNOWBALL THEN "Snowball Strategy"
    ELSE IF strat = AVALANCHE THEN "Avalanche Strategy"
    ELSE IF strat = CUSTOM THEN "Custom Strategy"
    ELSE "Payoff Scenario"

\* line 127: the loop condition
LoopCond(c) == Unpaid(working_debts[c]) # {} /\ current_month[c] < MAX_MONTHS

\* (variant: the working copies are one structure shared by the calls)
StateSharedWorkingDebts(c) ==
    [working_debts |-> working_debts[1], schedule |-> schedule[c],
     total_interest |-> total_interest[c], total_paid |-> total_paid[c],
     remaining_payment |-> remaining_payment[c]]

State(c) ==
    [working_debts |-> working_debts[c], schedule |-> schedule[c],
     total_interest |-> total_interest[c], total_paid |-> total_paid[c],
     remaining_payment |-> remaining_payment[c]]

SetState(c, st) ==
    /\ working_debts' = [working_debts EXCEPT ![c] = st.working_debts]
    /\ schedule' = [schedule EXCEPT ![c] = st.schedule]
    /\ total_interest' = [total_interest EXCEPT ![c] = st.total_interest]
    /\ total_paid' = [total_paid EXCEPT ![c] = st.total_paid]
    /\ remaining_payment' = [remaining_payment EXCEPT ![c] = st.remaining_payment]

\* ----------------------------------------------------------------- actions
\* lines 90-99: validation fails, ValueError
\* (variant: a payment equal to the sum of the minimums is refused too)
ValidationFailsStrict(c) ==
    debts = <<>> \/ monthly_payment[c] <= SumMin(debts)

ValidationFails(c) ==
    debts = <<>> \/ monthly_payment[c] < SumMin(debts)

\* the format specification .2f: an amount rounded to two decimals
Format2f(x) == ((x + 5) \div 10) * 10

\* lines 91 and 96-99: the amounts the ValueError's message names, in order
MessageAmounts(c) ==
    IF debts = <<>> THEN <<>>
    ELSE <<Format2f(monthly_payment[c]), Format2f(SumMin(debts))>>

Raise(c) ==
    /\ pc[c] = "idle"
    /\ ValidationFails(c)
    /\ pc' = [pc EXCEPT ![c] = "error"]
    /\ result' = [result EXCEPT ![c] =
           [status |-> "error",
            error |-> IF debts = <<>> THEN "no_debts" ELSE "insufficient_payment",
            monthly_payment |-> monthly_payment[c],
            total_minimums |-> SumMin(debts),
            message_amounts |-> MessageAmounts(c)]]
    /\ UNCHANGED <<inputs, locals>>

\* lines 40, 44, 49, 66 and 109: sorted() and the list built from the custom
\* order are new lists and the working copies hold deep copies, so the
\* caller's list is what it was
\* (variant: the list is sorted in place, as debts.sort() would)
CallerListSortedInPlace(ds, ordered_debts) == ordered_debts

CallerList(ds, ordered_debts) == ds

\* (variant: the running totals start from what the other call has left in
\* shared state)
BeginSharedTotals(c) ==
    /\ pc[c] = "idle"
    /\ ~ValidationFails(c)
    /\ LET ordered_debts == order_debts_by_strategy(debts, strategy, custom_order)
       IN working_debts' = [working_debts EXCEPT ![c] =
              [i \in 1..Len(ordered_debts) |-> WorkingCopy(ordered_debts[i])]]
    /\ schedule' = [schedule EXCEPT ![c] = <<>>]
    /\ current_month' = [current_month EXCEPT ![c] = 0]
    /\ total_interest' = [total_interest EXCEPT ![c] = total_interest[3 - c]]
    /\ total_paid' = [total_paid EXCEPT ![c] = total_paid[3 - c]]
    /\ remaining_payment' = [remaining_payment EXCEPT ![c] = 0]
    /\ pc' = [pc EXCEPT ![c] = "loop"]
    /\ debts' = CallerList(debts,
                           order_debts_by_strategy(debts, strategy, custom_order))
    /\ UNCHANGED <<strategy, custom_order, start_date, monthly_payment, result>>

\* lines 101-121: order the debts, create the working copies
Begin(c) ==
    /\ pc[c] = "idle"
    /\ ~ValidationFails(c)
    /\ LET ordered_debts == order_debts_by_strategy(debts, strategy, custom_order)
       IN working_debts' = [working_debts EXCEPT ![c] =
              [i \in 1..Len(ordered_debts) |-> WorkingCopy(ordered_debts[i])]]
    /\ schedule' = [schedule EXCEPT ![c] = <<>>]
    /\ current_month' = [current_month EXCEPT ![c] = 0]
    /\ total_interest' = [total_interest EXCEPT ![c] = 0]
    /\ total_paid' = [total_paid EXCEPT ![c] = 0]
    /\ remaining_payment' = [remaining_payment EXCEPT ![c] = 0]
    /\ pc' = [pc EXCEPT ![c] = "loop"]
    /\ debts' = CallerList(debts,
                           order_debts_by_strategy(debts, strategy, custom_order))
    /\ UNCHANGED <<strategy, custom_order, start_date, monthly_payment, result>>

\* lines 127-178: loop test, month advance, minimum-payment phase
MinimumPhase(c) ==
    /\ pc[c] = "loop"
    /\ LoopCond(c)
    /\ LET month == current_month[c] + 1
           date == start_date + 30 * month
           st == MinimumPhaseFrom(
                     [State(c) EXCEPT !.remaining_payment = monthly_payment[c]],
                     1, month, date)
       IN /\ current_month' = [current_month EXCEPT ![c] = month]
          /\ SetState(c, st)
    /\ pc' = [pc EXCEPT ![c] = "surplus"]
    /\ UNCHANGED <<inputs, result>>

\* lines 180-205: surplus phase
SurplusPhase(c) ==
    /\ pc[c] = "surplus"
    /\ SetState(c, SurplusStep(State(c), current_month[c]))
    /\ pc' = [pc EXCEPT ![c] = "loop"]
    /\ UNCHANGED <<inputs, current_month, result>>

\* lines 207-245: loop exit, summaries, the scenario
Return(c) ==
    /\ pc[c] = "loop"
    /\ ~LoopCond(c)
    /\ \E uuid \in ScenarioIds :
         result' = [result EXCEPT ![c] =
           [status |-> "scenario",
            scenario_id |-> uuid,
            name |-> ScenarioName(strategy),
            strategy |-> strategy,
            monthly_payment |-> monthly_payment[c],
            start_date |-> start_date,
            total_months |-> current_month[c],
            payoff_date |-> start_date + 30 * current_month[c],
            total_interest |-> total_interest[c],
            total_paid |-> total_paid[c],
            schedule |-> schedule[c],
            debt_summaries |->
                [i \in 1..Len(working_debts[c]) |->
                     DebtSummary(working_debts[c][i], start_date)]]]
    /\ pc' = [pc EXCEPT ![c] = "done"]
    /\ UNCHANGED <<inputs, locals>>

simulate_payoff_scenario(c) ==
    Raise(c) \/ Begin(c) \/ MinimumPhase(c) \/ SurplusPhase(c) \/ Return(c)

\* the call has returned or raised
Finished(c) == pc[c] \in {"done", "error"}

\* ------------------------------------------------------- compare_scenarios
\* calculation_utils.py lines 266-281
\* (variant: the payment difference is taken as B - A like the other fields)
compare_scenarios_all_b_minus_a(scenario_a, scenario_b) ==
    [interest_savings |-> scenario_b.total_interest - scenario_a.total_interest,
     time_savings_months |-> scenario_b.total_months - scenario_a.total_months,
     monthly_payment_difference |->
         scenario_b.monthly_payment - scenario_a.monthly_payment,
     total_savings |-> scenario_b.total_paid - scenario_a.total_paid]

compare_scenarios(scenario_a, scenario_b) ==
    [interest_savings |-> scenario_b.total_interest - scenario_a.total_interest,
     time_savings_months |-> scenario_b.total_months - scenario_a.total_months,
     monthly_payment_difference |->
         scenario_a.monthly_payment - scenario_b.monthly_payment,
     total_savings |-> scenario_b.total_paid - scenario_a.total_paid]

\* scenarios/routes.py lines 268-285: both scenarios simulated, then compared
Compare ==
    /\ pc[1] = "done" /\ pc[2] = "done"
    /\ comparison = NoResult
    /\ comparison' = compare_scenarios(result[1], result[2])
    /\ UNCHANGED <<simulator_vars, optimizer_vars, recommender_vars>>

\* --------------------------------------------- _optimize_for_target_months
\* scenarios/routes.py lines 465-510.  The optimizer runs simulate in call
\* slot 1 once per iteration; the route then simulates the returned payment
\* in call slot 2.
Abs(x) == IF x < 0 THEN 0 - x ELSE x

\* line 494
\* (variant: three months from the target are close enough)
WithinThreeOfTarget(months, target) == Abs(months - target) <= 3

WithinTarget(months, target) == Abs(months - target) <= 1

\* lines 496-505: the bracket after a simulation that did not end the search
\* (variant: the two bounds are moved the wrong way round)
NarrowedSwapped(lo, hi, mid, res, target) ==
    IF res.status = "scenario"
    THEN IF res.total_months > target
         THEN [low |-> lo, high |-> mid]
         ELSE [low |-> mid, high |-> hi]
    ELSE [low |-> mid, high |-> hi]

Narrowed(lo, hi, mid, res, target) ==
    IF res.status = "scenario"
    THEN IF res.total_months > target
         THEN [low |-> mid, high |-> hi]
         ELSE [low |-> lo, high |-> mid]
    ELSE [low |-> mid, high |-> hi]

\* lines 474-481
OptBegin ==
    /\ opt_pc = "start"
    /\ low' = SumMin(debts)
    /\ high' = SumBalance(debts)
    /\ iteration' = 0
    /\ opt_pc' = "loop"
    /\ UNCHANGED <<target_months, optimal_payment, simulator_vars, compare_vars,
                   recommender_vars>>

\* lines 483-493: the next iteration calls simulate at the midpoint
OptTry ==
    /\ opt_pc = "loop"
    /\ iteration < max_iterations
    /\ iteration' = iteration + 1
    /\ monthly_payment' = [monthly_payment EXCEPT ![1] = (low + high) \div 2]
    /\ pc' = [pc EXCEPT ![1] = "idle"]
    /\ result' = [result EXCEPT ![1] = NoResult]
    /\ working_debts' = [working_debts EXCEPT ![1] = <<>>]
    /\ schedule' = [schedule EXCEPT ![1] = <<>>]
    /\ current_month' = [current_month EXCEPT ![1] = 0]
    /\ total_interest' = [total_interest EXCEPT ![1] = 0]
    /\ total_paid' = [total_paid EXCEPT ![1] = 0]
    /\ remaining_payment' = [remaining_payment EXCEPT ![1] = 0]
    /\ opt_pc' = "simulating"
    /\ UNCHANGED <<debts, strategy, custom_order, start_date, target_months, low,
                   high, optimal_payment, compare_vars, recommender_vars>>

OptSimulate ==
    /\ opt_pc = "simulating"
    /\ simulate_payoff_scenario(1)
    /\ UNCHANGED <<optimizer_vars, compare_vars, recommender_vars>>

\* lines 494-510: the simulation's outcome ends the search, or narrows the
\* bracket; a bracket narrower than the tolerance, or the last iteration,
\* ends the loop and the middle of the bracket is returned
OptJudge ==
    /\ opt_pc = "simulating"
    /\ Finished(1)
    /\ LET mid == monthly_payment[1]
           res == result[1]
       IN IF res.status = "scenario" /\ WithinTarget(res.total_months, target_months)
          THEN /\ optimal_payment' = mid
               /\ opt_pc' = "returned"
               /\ UNCHANGED <<low, high>>
          ELSE LET b == Narrowed(low, high, mid, res, target_months)
               IN /\ low' = b.low
                  /\ high' = b.high
                  /\ IF b.high - b.low < tolerance \/ iteration >= max_iterations
                     THEN /\ optimal_payment' = (b.low + b.high) \div 2
                          /\ opt_pc' = "returned"
                     ELSE /\ opt_pc' = "loop"
                          /\ UNCHANGED optimal_payment
    /\ UNCHANGED <<target_months, iteration, simulator_vars, compare_vars,
                   recommender_vars>>

\* lines 193-198 and 212-219: the route simulates the returned payment
OptUse ==
    /\ opt_pc = "returned"
    /\ monthly_payment' = [monthly_payment EXCEPT ![2] = optimal_payment]
    /\ opt_pc' = "final"
    /\ UNCHANGED <<debts, strategy, custom_order, start_date, pc, locals, result,
                   target_months, low, high, iteration, optimal_payment,
                   compare_vars, recommender_vars>>

OptFinal ==
    /\ opt_pc = "final"
    /\ simulate_payoff_scenario(2)
    /\ UNCHANGED <<optimizer_vars, compare_vars, recommender_vars>>

\* -------------------------------------------------- _determine_best_strategy
\* recommendations/routes.py lines 182-272
\* line 198: profile.stress_level or 3
StressOrDefault(stress_level) ==
    IF stress_level = 0 THEN DefaultStress ELSE stress_level

\* line 205
SmallDebts(ds) ==
    Cardinality({ i \in 1..Len(ds) : ds[i].balance < SmallDebtBalance })

\* (variant: avoid-default asks for two small debts, like lower-payment)
determine_best_strategy_two_small(prof, ds, snowball, avalanche) ==
    LET goal == prof.primary_goal
        stress == StressOrDefault(prof.stress_level)
        time_difference == snowball.total_months - avalanche.total_months
        small_debts == SmallDebts(ds)
    IN IF goal = PAY_FASTER THEN
           IF time_difference > SignificantMonths
           THEN [recommended_strategy |-> AVALANCHE, rationale |-> "faster"]
           ELSE IF stress >= HighStress /\ small_debts >= 2
                THEN [recommended_strategy |-> SNOWBALL, rationale |-> "wins"]
                ELSE [recommended_strategy |-> AVALANCHE, rationale |-> "similar-time"]
       ELSE IF goal = REDUCE_INTEREST THEN
           [recommended_strategy |-> AVALANCHE, rationale |-> "interest"]
       ELSE IF goal = LOWER_PAYMENT THEN
           IF small_debts >= 2
           THEN [recommended_strategy |-> SNOWBALL, rationale |-> "obligations"]
           ELSE [recommended_strategy |-> AVALANCHE, rationale |-> "cost-effective"]
       ELSE IF goal = AVOID_DEFAULT THEN
           IF small_debts >= 2
           THEN [recommended_strategy |-> SNOWBALL, rationale |-> "momentum"]
           ELSE [recommended_strategy |-> AVALANCHE, rationale |-> "sustainable"]
       ELSE [recommended_strategy |-> AVALANCHE, rationale |-> "default"]

determine_best_strategy(prof, ds, snowball, avalanche) ==
    LET goal == prof.primary_goal
        stress == StressOrDefault(prof.stress_level)
        time_difference == snowball.total_months - avalanche.total_months
        small_debts == SmallDebts(ds)
    IN IF goal = PAY_FASTER THEN
           IF time_difference > SignificantMonths
           THEN [recommended_strategy |-> AVALANCHE, rationale |-> "faster"]
           ELSE IF stress >= HighStress /\ small_debts >= 2
                THEN [recommended_strategy |-> SNOWBALL, rationale |-> "wins"]
                ELSE [recommended_strategy |-> AVALANCHE, rationale |-> "similar-time"]
       ELSE IF goal = REDUCE_INTEREST THEN
           [recommended_strategy |-> AVALANCHE, rationale |-> "interest"]
       ELSE IF goal = LOWER_PAYMENT THEN
           IF small_debts >= 2
           THEN [recommended_strategy |-> SNOWBALL, rationale |-> "obligations"]
           ELSE [recommended_strategy |-> AVALANCHE, rationale |-> "cost-effective"]
       ELSE IF goal = AVOID_DEFAULT THEN
           IF small_debts >= 1
           THEN [recommended_strategy |-> SNOWBALL, rationale |-> "momentum"]
           ELSE [recommended_strategy |-> AVALANCHE, rationale |-> "sustainable"]
       ELSE [recommended_strategy |-> AVALANCHE, rationale |-> "default"]

\* lines 62-68: the route simulates snowball in call slot 1
RecSnowball ==
    /\ strategy = SNOWBALL
    /\ simulate_payoff_scenario(1)
    /\ UNCHANGED <<compare_vars, optimizer_vars, recommender_vars>>

\* lines 70-75: then avalanche in call slot 2 (a ValueError of the first
\* call ends the request)
RecSwitch ==
    /\ strategy = SNOWBALL
    /\ pc[1] = "done"
    /\ strategy' = AVALANCHE
    /\ UNCHANGED <<debts, custom_order, start_date, monthly_payment, pc, locals,
                   result, compare_vars, optimizer_vars, recommender_vars>>

RecAvalanche ==
    /\ strategy = AVALANCHE
    /\ simulate_payoff_scenario(2)
    /\ UNCHANGED <<compare_vars, optimizer_vars, recommender_vars>>

\* lines 77-80
Recommend ==
    /\ strategy = AVALANCHE
    /\ pc[2] = "done"
    /\ recommendation = NoResult
    /\ recommendation' = determine_best_strategy(profile, debts, result[1], result[2])
    /\ UNCHANGED <<simulator_vars, compare_vars, optimizer_vars, profile, confidence>>

\* ------------------------------------------------ calculate_confidence_score
\* shared/calculation_utils.py lines 283-322.  The score is in
\* ten-thousandths of a point (100.0 is 1000000), profile_completeness in
\* hundredths, cash_flow_ratio in thousandths.
calculate_confidence_score(profile_completeness, debt_count, has_delinquent, cash_flow_ratio) ==
    LET s0 == (1000000 * profile_completeness) \div 100
        s1 == IF debt_count > 10 THEN (s0 * 8) \div 10
              ELSE IF debt_count > 5 THEN (s0 * 9) \div 10
              ELSE s0
        s2 == IF has_delinquent THEN (s1 * 7) \div 10 ELSE s1
        s3 == IF cash_flow_ratio < 1100 THEN (s2 * 8) \div 10
              ELSE IF cash_flow_ratio < 1200 THEN (s2 * 9) \div 10
              ELSE s2
    IN Max2(0, Min2(1000000, s3))

\* An attribute read of a pydantic model: the record's fields are the
\* model's declared fields.
HasAttr(obj, name) == name \in DOMAIN obj

\* shared/simple_debt_models.py line 22: is_delinquent defaults to False
IsDelinquent(d) == IF HasAttr(d, "is_delinquent") THEN d.is_delinquent ELSE FALSE

\* recommendations/routes.py lines 274-315.  Reading an attribute that the
\* profile does not have raises AttributeError (line 293 reads cash_flow,
\* line 297 profile_completeness).
calculate_recommendation_confidence(prof, ds, snowball, avalanche) ==
    LET total_minimums == SumMin(ds)
    IN IF ~HasAttr(prof, "cash_flow")
       THEN [status |-> "error", error |-> "AttributeError", attribute |-> "cash_flow"]
       ELSE IF ~HasAttr(prof, "profile_completeness")
       THEN [status |-> "error", error |-> "AttributeError",
             attribute |-> "profile_completeness"]
       ELSE
         LET cash_flow_ratio ==
                 IF prof.cash_flow # 0 /\ total_minimums > 0
                 THEN (prof.cash_flow * 1000) \div total_minimums
                 ELSE 1000
             base == calculate_confidence_score(
                         prof.profile_completeness, Len(ds),
                         \E i \in 1..Len(ds) : IsDelinquent(ds[i]),
                         cash_flow_ratio)
             interest_diff == Abs(snowball.total_interest - avalanche.total_interest)
             time_diff == Abs(snowball.total_months - avalanche.total_months)
             near == IF interest_diff < 100000 /\ time_diff < 3
                     THEN (base * 95) \div 100 ELSE base
             clear == IF interest_diff > 1000000 \/ time_diff > 12
                      THEN (near * 105) \div 100 ELSE near
         IN [status |-> "ok", score |-> Min2(1000000, Max2(0, clear))]

\* recommendations/routes.py lines 82-85: the route's confidence step; the
\* AttributeError is not a ValueError, so line 103 does not catch it
Confidence ==
    /\ recommendation # NoResult
    /\ confidence = NoResult
    /\ confidence' = calculate_recommendation_confidence(profile, debts,
                                                         result[1], result[2])
    /\ UNCHANGED <<simulator_vars, compare_vars, optimizer_vars, profile,
                   recommendation>>

\* ---------------------------------------------------------- specifications
InitLocals ==
    /\ pc = [c \in Calls |-> "idle"]
    /\ working_debts = [c \in Calls |-> <<>>]
    /\ schedule = [c \in Calls |-> <<>>]
    /\ current_month = [c \in Calls |-> 0]
    /\ total_interest = [c \in Calls |-> 0]
    /\ total_paid = [c \in Calls |-> 0]
    /\ remaining_payment = [c \in Calls |-> 0]
    /\ result = [c \in Calls |-> NoResult]

InitCompareIdle == comparison = NoResult

InitOptimizerIdle ==
    /\ target_months = 0
    /\ low = 0
    /\ high = 0
    /\ iteration = 0
    /\ opt_pc = "off"
    /\ optimal_payment = 0

InitRecommenderIdle ==
    /\ profile = NoResult
    /\ recommendation = NoResult
    /\ confidence = NoResult

InitInputs ==
    /\ debts \in DebtLists
    /\ strategy \in PayoffStrategy
    /\ custom_order \in IF strategy = CUSTOM THEN CustomOrders(debts) ELSE {<<>>}
    /\ start_date \in StartDates

\* One call of simulate.
Init ==
    /\ InitInputs
    /\ \E x \in PaymentDeltas :
         monthly_payment = [c \in Calls |-> SumMin(debts) + x]
    /\ InitLocals
    /\ InitCompareIdle /\ InitOptimizerIdle /\ InitRecommenderIdle

Next ==
    \/ Raise(1) /\ UNCHANGED <<compare_vars, optimizer_vars, recommender_vars>>
    \/ Begin(1) /\ UNCHANGED <<compare_vars, optimizer_vars, recommender_vars>>
    \/ MinimumPhase(1) /\ UNCHANGED <<compare_vars, optimizer_vars, recommender_vars>>
    \/ SurplusPhase(1) /\ UNCHANGED <<compare_vars, optimizer_vars, recommender_vars>>
    \/ Return(1) /\ UNCHANGED <<compare_vars, optimizer_vars, recommender_vars>>

Spec == Init /\ [][Next]_vars

\* One call of simulate for the profile with the single debt of 1200 at
\* 12%.  The call runs to its end: the code is a sequential loop, no step
\* waits.
InitScenarioA ==
    /\ debts \in { <<d>> : d \in { x \in ScenarioADebts : SimpleDebtValid(x) } }
    /\ strategy \in PayoffStrategy
    /\ custom_order \in IF strategy = CUSTOM THEN CustomOrders(debts) ELSE {<<>>}
    /\ start_date \in StartDates
    /\ \E x \in PaymentDeltas :
         monthly_payment = [c \in Calls |-> SumMin(debts) + x]
    /\ InitLocals
    /\ InitCompareIdle /\ InitOptimizerIdle /\ InitRecommenderIdle

SpecScenarioA == InitScenarioA /\ [][Next]_vars /\ WF_vars(Next)

\* Two calls on the same debts, strategy and custom order, one after the
\* other; the second call's monthly payment is at least the first's.

InitPair ==
    /\ InitInputs
    /\ \E x, y \in PairDeltas :
         /\ x <= y
         /\ monthly_payment = [c \in Calls |-> SumMin(debts) + IF c = 1 THEN x ELSE y]
    /\ InitLocals
    /\ InitCompareIdle /\ InitOptimizerIdle /\ InitRecommenderIdle

NextPair ==
    \/ /\ simulate_payoff_scenario(1)
       /\ UNCHANGED <<compare_vars, optimizer_vars, recommender_vars>>
    \/ /\ Finished(1)
       /\ simulate_payoff_scenario(2)
       /\ UNCHANGED <<compare_vars, optimizer_vars, recommender_vars>>
    \/ Compare

SpecPair == InitPair /\ [][NextPair]_vars

\* The optimize route with a target number of months (the request carries
\* no custom order).
InitOpt ==
    /\ debts \in OptimizerDebtLists
    /\ strategy \in PayoffStrategy
    /\ custom_order = <<>>
    /\ start_date \in StartDates
    /\ monthly_payment = [c \in Calls |-> 0]
    /\ InitLocals
    /\ target_months \in TargetMonths
    /\ low = 0
    /\ high = 0
    /\ iteration = 0
    /\ opt_pc = "start"
    /\ optimal_payment = 0
    /\ InitCompareIdle /\ InitRecommenderIdle

NextOpt ==
    \/ OptBegin
    \/ OptTry
    \/ OptSimulate
    \/ OptJudge
    \/ OptUse
    \/ OptFinal

SpecOpt == InitOpt /\ [][NextOpt]_vars

\* The code runs on: a step that can be taken is taken.
SpecOptFair == InitOpt /\ [][NextOpt]_vars /\ WF_vars(NextOpt)

\* Two calls of simulate on the same debt list at once, e.g. two requests
\* served together: their steps interleave in any order.  The lists are
\* short ones of debts that are paid off within a few months.
ConcurrentDebtLists ==
    { s \in SeqsUpTo({ d \in DebtCatalogue : d.id \in {"a", "b", "e"} }, 2) :
        Injective(s) /\ \A i \in 1..Len(s) : SimpleDebtValid(s[i]) }

ConcurrentDeltas == {0 - 1000, 0, 100000}

InitConcurrent ==
    /\ debts \in ConcurrentDebtLists
    /\ strategy \in PayoffStrategy
    /\ custom_order \in IF strategy = CUSTOM
                         THEN { co \in CustomOrders(debts) : Len(co) <= 1 }
                         ELSE {<<>>}
    /\ start_date \in StartDates
    /\ \E x, y \in ConcurrentDeltas :
         monthly_payment = [c \in Calls |-> SumMin(debts) + IF c = 1 THEN x ELSE y]
    /\ InitLocals
    /\ InitCompareIdle /\ InitOptimizerIdle /\ InitRecommenderIdle

NextConcurrent ==
    \/ /\ simulate_payoff_scenario(1)
       /\ UNCHANGED <<compare_vars, optimizer_vars, recommender_vars>>
    \/ /\ simulate_payoff_scenario(2)
       /\ UNCHANGED <<compare_vars, optimizer_vars, recommender_vars>>

SpecConcurrent == InitConcurrent /\ [][NextConcurrent]_vars

\* The recommend route: both strategies simulated at the request's payment,
\* then the recommendation.
InitRec ==
    /\ \E r \in RecommendRequests :
         /\ debts = r.debts
         /\ monthly_payment = [c \in Calls |-> r.monthly_payment]
    /\ strategy = SNOWBALL
    /\ custom_order = <<>>
    /\ start_date \in StartDates
    /\ InitLocals
    /\ profile \in Profiles
    /\ recommendation = NoResult
    /\ confidence = NoResult
    /\ InitCompareIdle /\ InitOptimizerIdle

NextRec ==
    \/ RecSnowball
    \/ RecSwitch
    \/ RecAvalanche
    \/ Recommend
    \/ Confidence

SpecRec == InitRec /\ [][NextRec]_vars

\* ------------------------------------------------------------------ claims
Started(c) == pc[c] \in {"loop", "surplus", "done"}

\* the debts in the order simulate works through them
Ordered(c) == [i \in 1..Len(working_debts[c]) |-> working_debts[c][i].debt]

\* the sum of principal + interest over rows lo..hi (by halving)
RECURSIVE SumRowsIn(_, _, _)
SumRowsIn(sched, lo, hi) ==
    IF lo > hi THEN 0
    ELSE IF lo = hi THEN sched[lo].principal + sched[lo].interest
    ELSE LET mid == (lo + hi) \div 2
         IN SumRowsIn(sched, lo, mid) + SumRowsIn(sched, mid + 1, hi)

SumRows(sched) == SumRowsIn(sched, 1, Len(sched))

RECURSIVE SumOriginal(_)
SumOriginal(wds) ==
    IF wds = <<>> THEN 0 ELSE wds[1].debt.balance + SumOriginal(Tail(wds))

RECURSIVE SumRemaining(_)
SumRemaining(wds) ==
    IF wds = <<>> THEN 0 ELSE wds[1].remaining_balance + SumRemaining(Tail(wds))

PaidOffCount(wds) == Cardinality({ i \in 1..Len(wds) : wds[i].paid_off })

DebtById(id) ==
    CHOOSE d \in DebtCatalogue \cup ScenarioCDebts \cup ScenarioDDebts
                 \cup ScenarioADebts : d.id = id

PosIn(ds, d) == CHOOSE i \in 1..Len(ds) : ds[i] = d

\* C1: simulate validates before simulating.  With an empty debt list, or a
\* monthly payment below the sum of the minimum payments, a call that has
\* started has failed: it holds an error, no scenario, and has processed no
\* month.  With a non-empty list and a payment of at least that sum it never
\* fails.
C1_ValidatesFirst ==
    \A c \in Calls :
      /\ (pc[c] # "idle" /\ (debts = <<>> \/ monthly_payment[c] < SumMin(debts)))
           => /\ pc[c] = "error"
              /\ result[c].status = "error"
              /\ current_month[c] = 0
              /\ schedule[c] = <<>>
      /\ (debts # <<>> /\ monthly_payment[c] >= SumMin(debts))
           => /\ pc[c] # "error"
              /\ result[c].status # "error"

C1_Witness ==
    /\ pc[1] = "error"
    /\ debts # <<>>
    /\ monthly_payment[1] < SumMin(debts)
    /\ result[1].error = "insufficient_payment"

\* C2: when month 600 has been processed and some debt is still not paid
\* off, simulate does not return a scenario (it fails instead).
C2_OverrunIsFatal ==
    \A c \in Calls :
      (current_month[c] = MAX_MONTHS /\ Unpaid(working_debts[c]) # {})
        => pc[c] # "done"

\* C3: in every scenario simulate returns, each debt's last schedule row has
\* remaining balance 0 and each debt summary has a payoff month of at least 1.
C3_AllPaidOff ==
    \A c \in Calls :
      pc[c] = "done" =>
        /\ \A i \in 1..Len(result[c].debt_summaries) :
             result[c].debt_summaries[i].months_to_payoff >= 1
        /\ \A i \in 1..Len(result[c].debt_summaries) :
             LET id == result[c].debt_summaries[i].debt_id
                 rows == { k \in 1..Len(result[c].schedule) :
                             result[c].schedule[k].debt_id = id }
             IN /\ rows # {}
                /\ \A k \in rows :
                     (\A j \in rows : j <= k)
                       => result[c].schedule[k].remaining_balance = 0

\* C4 as claimed: in a returned scenario total_paid minus total_interest
\* equals the sum of the debts' original balances (1e-6 is below the unit of
\* the model, so the equality is exact).
C4_AllPrincipalCollected ==
    \A c \in Calls :
      pc[c] = "done" =>
        result[c].total_paid - result[c].total_interest = SumBalance(debts)

\* C4 as amended: in a returned scenario total_paid minus total_interest
\* equals the sum of the original balances of the debts simulate worked
\* through, less the balance still outstanding on debts not paid off and
\* less, for each paid-off debt, a residue of at most 0.01 written off by
\* the payoff threshold.
C4_PrincipalUpToResidue ==
    \A c \in Calls :
      pc[c] = "done" =>
        LET gap == SumOriginal(working_debts[c])
                     - (result[c].total_paid - result[c].total_interest)
                     - SumRemaining(working_debts[c])
        IN /\ gap >= 0
           /\ gap <= EPS * PaidOffCount(working_debts[c])

C4_Witness ==
    /\ pc[1] = "done"
    /\ Unpaid(working_debts[1]) = {}
    /\ Len(debts) = 2
    /\ result[1].total_paid - result[1].total_interest < SumBalance(debts)
    /\ \E k \in 1..Len(schedule[1]) :
         schedule[1][k].payment > DebtById(schedule[1][k].debt_id).minimum_payment

\* C5: at every point of a simulation the schedule rows' principal plus
\* interest add up to total_paid, also after a surplus payment has updated a
\* row in place.
C5_RowsSumToTotalPaid ==
    \A c \in Calls : Started(c) => SumRows(schedule[c]) = total_paid[c]

C5_Witness ==
    /\ pc[1] = "loop"
    /\ current_month[1] >= 2
    /\ \E k \in 1..Len(schedule[1]) :
         /\ schedule[1][k].month = current_month[1]
         /\ schedule[1][k].payment > DebtById(schedule[1][k].debt_id).minimum_payment

\* C6: every schedule row, after the minimum-payment phase and after the
\* surplus phase, has principal + interest = payment and non-negative
\* principal, interest and remaining balance.
C6_RowInvariant ==
    \A c \in Calls :
      \A k \in 1..Len(schedule[c]) :
        /\ schedule[c][k].principal + schedule[c][k].interest = schedule[c][k].payment
        /\ schedule[c][k].principal >= 0
        /\ schedule[c][k].interest >= 0
        /\ schedule[c][k].remaining_balance >= 0

C6_Witness ==
    /\ pc[1] = "loop"
    /\ \E k \in 1..Len(schedule[1]) :
         /\ schedule[1][k].interest > 0
         /\ schedule[1][k].remaining_balance > 0
         /\ schedule[1][k].payment > DebtById(schedule[1][k].debt_id).minimum_payment
    /\ \E k \in 1..Len(schedule[1]) :
         schedule[1][k].payment < DebtById(schedule[1][k].debt_id).minimum_payment

\* C7: of two calls on the same debts, strategy and custom order, the one
\* with the larger (or equal) monthly payment returns no more total_months
\* and no more total_interest.
C7_Monotone ==
    (pc[1] = "done" /\ pc[2] = "done" /\ monthly_payment[2] >= monthly_payment[1])
      => /\ result[2].total_months <= result[1].total_months
         /\ result[2].total_interest <= result[1].total_interest

C7_Witness ==
    /\ pc[1] = "done" /\ pc[2] = "done"
    /\ monthly_payment[2] > monthly_payment[1]
    /\ Len(debts) = 2
    /\ result[2].total_months < result[1].total_months
    /\ result[2].total_interest < result[1].total_interest

StableSortOf(s, ds, by) ==
    /\ Len(s) = Len(ds)
    /\ Range(s) = Range(ds)
    /\ \A i, j \in 1..Len(s) :
         i < j =>
           \/ SortKey(s[i], by) < SortKey(s[j], by)
           \/ /\ SortKey(s[i], by) = SortKey(s[j], by)
              /\ PosIn(ds, s[i]) < PosIn(ds, s[j])

\* C9: snowball orders the debts by ascending balance and avalanche by
\* descending APR; debts with equal keys keep their input order.
C9_SnowballAvalancheOrder ==
    \A c \in Calls :
      Started(c) =>
        /\ strategy = SNOWBALL => StableSortOf(Ordered(c), debts, "balance")
        /\ strategy = AVALANCHE => StableSortOf(Ordered(c), debts, "apr_desc")

C9_Witness ==
    /\ Started(1)
    /\ strategy = SNOWBALL
    /\ Len(debts) = 2
    /\ debts[1].balance = debts[2].balance
    /\ debts[1].id = "b"
    /\ Ordered(1) = debts

\* the positions of custom_order whose id is the id of some debt
Hits(co, ds) == { j \in 1..Len(co) : \E i \in 1..Len(ds) : ds[i].id = co[j] }

\* C10: custom puts first, for each id of custom_order that names a debt and
\* in the order of custom_order, that debt; then the debts whose ids are
\* absent from custom_order, by ascending balance.  With an empty
\* custom_order the result is the snowball ordering.
C10_CustomOrder ==
    \A c \in Calls :
      (Started(c) /\ strategy = CUSTOM) =>
        IF custom_order = <<>>
        THEN StableSortOf(Ordered(c), debts, "balance")
        ELSE LET hits == Hits(custom_order, debts)
                 n == Cardinality(hits)
                 absent == { i \in 1..Len(debts) : debts[i].id \notin Range(custom_order) }
                 o == Ordered(c)
             IN /\ Len(o) = n + Cardinality(absent)
                /\ \A k \in 1..n :
                     \E j \in hits :
                       /\ Cardinality({ h \in hits : h <= j }) = k
                       /\ o[k].id = custom_order[j]
                       /\ o[k] \in Range(debts)
                /\ { o[k] : k \in (n + 1)..Len(o) } = { debts[i] : i \in absent }
                /\ \A k \in (n + 1)..(Len(o) - 1) : o[k].balance <= o[k + 1].balance

C10_Witness ==
    /\ Started(1)
    /\ strategy = CUSTOM
    /\ Len(custom_order) = 2
    /\ Hits(custom_order, debts) = {2}
    /\ Len(debts) = 2
    /\ debts[2].id = custom_order[2]
    /\ Ordered(1) = <<debts[2], debts[1]>>

\* C11: for every strategy and every custom_order, repeated ids included,
\* the ordering is a permutation of the input debts: it is as long as the
\* input list and each input debt occurs in it exactly once.
C11_Permutation ==
    \A c \in Calls :
      Started(c) =>
        /\ Len(Ordered(c)) = Len(debts)
        /\ \A i \in 1..Len(debts) :
             Cardinality({ k \in 1..Len(Ordered(c)) : Ordered(c)[k] = debts[i] }) = 1

\* the schedule rows of call c that the step changes
ChangedRows(c) == { k \in 1..Len(schedule[c]) : schedule'[c][k] # schedule[c][k] }

\* the step is the surplus phase of month 1 of call c
SurplusOfMonthOne(c) ==
    pc[c] = "surplus" /\ pc'[c] = "loop" /\ current_month[c] = 1

\* C12 as claimed: in month 1 the debt that receives the surplus payment is
\* a debt of lowest balance under snowball and a debt of highest APR under
\* avalanche.
C12_TargetIsOverallFirst ==
    [][\A c \in Calls :
         SurplusOfMonthOne(c) =>
           \A k \in ChangedRows(c) :
             LET d == DebtById(schedule[c][k].debt_id)
             IN \A i \in 1..Len(debts) :
                  /\ strategy = SNOWBALL => d.balance <= debts[i].balance
                  /\ strategy = AVALANCHE => d.apr >= debts[i].apr]_vars

\* C12 as amended: in month 1 the debt that receives the surplus payment is,
\* among the debts still unpaid after the minimum payments of month 1, the
\* one of lowest balance under snowball and of highest APR under avalanche
\* (of equal ones the first of the input list).  For the debts 500 at 10%
\* and 5000 at 25% it is the 500 debt under snowball and the 5000 debt under
\* avalanche.
C12_TargetIsFirstStillUnpaid ==
    [][\A c \in Calls :
         SurplusOfMonthOne(c) =>
           \A k \in ChangedRows(c) :
             LET d == DebtById(schedule[c][k].debt_id)
                 open == { working_debts[c][i].debt : i \in Unpaid(working_debts[c]) }
             IN /\ d \in open
                /\ strategy = SNOWBALL =>
                     \A o \in open \ {d} :
                       \/ d.balance < o.balance
                       \/ d.balance = o.balance /\ PosIn(debts, d) < PosIn(debts, o)
                /\ strategy = AVALANCHE =>
                     \A o \in open \ {d} :
                       \/ d.apr > o.apr
                       \/ d.apr = o.apr /\ PosIn(debts, d) < PosIn(debts, o)
                /\ (DebtIds(debts) = {"s", "l"} /\ strategy = SNOWBALL) => d.id = "s"
                /\ (DebtIds(debts) = {"s", "l"} /\ strategy = AVALANCHE) => d.id = "l"]_vars

C12_Witness ==
    /\ pc[1] = "loop"
    /\ current_month[1] = 1
    /\ strategy = AVALANCHE
    /\ Len(debts) = 2
    /\ debts[1].id = "s"
    /\ \E k \in 1..Len(schedule[1]) :
         /\ schedule[1][k].debt_id = "l"
         /\ schedule[1][k].payment > DebtById("l").minimum_payment

\* the working copies of call c that the step changes
ChangedDebts(c) ==
    { i \in 1..Len(working_debts[c]) : working_debts'[c][i] # working_debts[c][i] }

\* C13: the surplus phase of a month changes at most one debt and at most
\* one schedule row; the debt is the first one in strategy order that the
\* minimum-payment phase has left unpaid, the row is a row of that debt in
\* the current month, and what the month adds to total_paid beyond the
\* minimum payments is what that one debt has received, also when the
\* surplus exceeds the debt's remaining balance.
C13_OneTargetPerMonth ==
    [][\A c \in Calls :
         (pc[c] = "surplus" /\ pc'[c] = "loop") =>
           /\ Cardinality(ChangedDebts(c)) <= 1
           /\ Cardinality(ChangedRows(c)) <= 1
           /\ \A i \in ChangedDebts(c) :
                /\ i \in Unpaid(working_debts[c])
                /\ \A j \in Unpaid(working_debts[c]) : i <= j
                /\ total_paid'[c] - total_paid[c]
                     = working_debts'[c][i].total_paid - working_debts[c][i].total_paid
                /\ total_paid'[c] - total_paid[c]
                     <= working_debts[c][i].remaining_balance
                /\ \A k \in ChangedRows(c) :
                     /\ schedule[c][k].debt_id = working_debts[c][i].debt.id
                     /\ schedule[c][k].month = current_month[c]
           /\ ChangedDebts(c) = {} =>
                /\ ChangedRows(c) = {}
                /\ total_paid'[c] = total_paid[c]]_vars

\* a month whose surplus was larger than the target's balance while another
\* debt stayed unpaid
C13_Witness ==
    /\ pc[1] = "loop"
    /\ Unpaid(working_debts[1]) # {}
    /\ total_paid[1] < current_month[1] * monthly_payment[1] - EPS
    /\ \E k \in 1..Len(schedule[1]) :
         /\ schedule[1][k].month = current_month[1]
         /\ schedule[1][k].remaining_balance = 0
         /\ schedule[1][k].payment > DebtById(schedule[1][k].debt_id).minimum_payment

\* C14: the error raised for a monthly payment below the sum of the minimum
\* payments names the shortfall, the sum of the minimum payments less the
\* monthly payment: that amount is one of the amounts in the message.
C14_NamesShortfall ==
    \A c \in Calls :
      (pc[c] = "error" /\ result[c].error = "insufficient_payment")
        => \E k \in 1..Len(result[c].message_amounts) :
             result[c].message_amounts[k]
               = Format2f(SumMin(debts) - monthly_payment[c])

\* C15 as claimed: each of the four fields compare returns is B's value less
\* A's value.
C15_AllBMinusA ==
    comparison # NoResult =>
      /\ comparison.interest_savings
           = result[2].total_interest - result[1].total_interest
      /\ comparison.time_savings_months
           = result[2].total_months - result[1].total_months
      /\ comparison.monthly_payment_difference
           = result[2].monthly_payment - result[1].monthly_payment
      /\ comparison.total_savings = result[2].total_paid - result[1].total_paid

\* C15 as amended: interest savings, time savings and total savings are B's
\* value less A's value; the monthly payment difference is A's monthly
\* payment less B's.
C15_PaymentDifferenceIsAMinusB ==
    comparison # NoResult =>
      /\ comparison.interest_savings
           = result[2].total_interest - result[1].total_interest
      /\ comparison.time_savings_months
           = result[2].total_months - result[1].total_months
      /\ comparison.monthly_payment_difference
           = result[1].monthly_payment - result[2].monthly_payment
      /\ comparison.total_savings = result[2].total_paid - result[1].total_paid

C15_Witness ==
    /\ comparison # NoResult
    /\ comparison.monthly_payment_difference < 0
    /\ comparison.interest_savings < 0
    /\ comparison.time_savings_months < 0
    /\ comparison.total_savings < 0

\* the optimizer has returned on the single debt of 1200 at 0% with a target
\* of 12 months
ScenarioDReturned ==
    /\ opt_pc \in {"returned", "final"}
    /\ debts \in { <<d>> : d \in ScenarioDDebts }
    /\ target_months = 12

\* C16 as claimed: with a target of 12 months on a single debt of 1200 at 0%
\* the optimizer returns a payment within 1.00 of 100, whatever the debt's
\* minimum payment.
C16_ReturnsAboutHundred ==
    ScenarioDReturned => Abs(optimal_payment - 100000) <= tolerance

\* C16 as amended: with a target of 12 months on a single debt of 1200 at 0%
\* whose minimum payment is at most 119, the optimizer returns a payment
\* between 92.30 and 120 that is not below the minimum payment, and the
\* simulation at that payment takes 11, 12 or 13 months.
C16_ReturnsElevenToThirteenMonths ==
    (ScenarioDReturned /\ debts[1].minimum_payment <= 119000) =>
      /\ optimal_payment > 92300
      /\ optimal_payment < 120000
      /\ optimal_payment >= debts[1].minimum_payment
      /\ (opt_pc = "final" /\ Finished(2)) =>
           /\ pc[2] = "done"
           /\ result[2].total_months \in 11..13

C16_Witness ==
    /\ ScenarioDReturned
    /\ debts[1].minimum_payment = 100000
    /\ optimal_payment > 110000
    /\ opt_pc = "final"
    /\ pc[2] = "done"
    /\ result[2].total_months = 11

\* C17: the payment the optimizer returns lies between the sum of the
\* minimum payments and the sum of the balances, and the simulation the
\* route runs at that payment does not fail.
C17_ResultInBracket ==
    /\ opt_pc \in {"returned", "final"} =>
         /\ optimal_payment >= SumMin(debts)
         /\ optimal_payment <= SumBalance(debts)
    /\ opt_pc = "final" => pc[2] # "error"

\* the step ends an iteration of the optimizer: the simulation's outcome is
\* judged
JudgeStep == opt_pc = "simulating" /\ opt_pc' # "simulating"

\* C18: the optimizer terminates.  It begins at most 50 iterations, each of
\* which simulates the midpoint of the bracket once.  A simulation whose
\* total_months is within 1 of the target makes it return the midpoint at
\* once; otherwise more months than the target raise the lower bound to the
\* midpoint and fewer lower the upper bound to it, and the search stops
\* with the middle of the bracket once the bracket is narrower than 1.00
\* (or the iterations are used up).
C18_OptimizerTerminates ==
    /\ [](iteration <= max_iterations)
    /\ [][(opt_pc = "loop" /\ opt_pc' = "simulating") =>
            /\ iteration' = iteration + 1
            /\ monthly_payment'[1] = (low + high) \div 2]_vars
    /\ [][(JudgeStep /\ pc[1] = "done") =>
            LET months == result[1].total_months
                mid == monthly_payment[1]
            IN /\ Abs(months - target_months) <= 1 =>
                    /\ opt_pc' = "returned"
                    /\ optimal_payment' = mid
               /\ months > target_months + 1 => (low' = mid /\ high' = high)
               /\ months < target_months - 1 => (high' = mid /\ low' = low)
               /\ Abs(months - target_months) > 1 =>
                    /\ opt_pc' = "returned"
                         <=> (high' - low' < tolerance \/ iteration = max_iterations)
                    /\ opt_pc' = "returned" =>
                         optimal_payment' = (low' + high') \div 2]_vars
    /\ <>(opt_pc = "returned")

\* a search that ended after several iterations because the bracket became
\* narrower than 1.00
C18_Witness ==
    /\ opt_pc = "returned"
    /\ iteration >= 5
    /\ iteration < max_iterations
    /\ high < SumBalance(debts)
    /\ high - low < tolerance
    /\ optimal_payment = (low + high) \div 2

\* avalanche pays off so many months sooner than snowball
MonthsFaster == result[1].total_months - result[2].total_months

\* C19: for the goal pay-faster the recommender returns avalanche whenever
\* avalanche is at least 3 months faster than snowball; otherwise snowball
\* if the stress level (3 when the profile has none) is at least 4 and at
\* least 2 debts have a balance below 2000; otherwise avalanche.
C19_PayFaster ==
    (recommendation # NoResult /\ profile.primary_goal = PAY_FASTER) =>
      recommendation.recommended_strategy =
        IF MonthsFaster >= 3 THEN AVALANCHE
        ELSE IF /\ (IF profile.stress_level = 0 THEN 3 ELSE profile.stress_level) >= 4
                /\ Cardinality({ i \in 1..Len(debts) : debts[i].balance < 2000000 }) >= 2
             THEN SNOWBALL
             ELSE AVALANCHE

\* C20: for the goals other than pay-faster the recommendation depends only
\* on the goal and on the number of debts with a balance below 2000:
\* reduce-interest gives avalanche; lower-payment gives snowball exactly when
\* there are at least 2 such debts; avoid-default gives snowball exactly
\* when there is at least 1.  The custom strategy is never recommended.
C20_OtherGoals ==
    recommendation # NoResult =>
      LET small == Cardinality({ i \in 1..Len(debts) : debts[i].balance < 2000000 })
          rec == recommendation.recommended_strategy
      IN /\ rec \in {SNOWBALL, AVALANCHE}
         /\ profile.primary_goal = REDUCE_INTEREST => rec = AVALANCHE
         /\ profile.primary_goal = LOWER_PAYMENT => (rec = SNOWBALL <=> small >= 2)
         /\ profile.primary_goal = AVOID_DEFAULT => (rec = SNOWBALL <=> small >= 1)

\* avoid-default with exactly one small debt, a stress level of 1 and
\* avalanche clearly faster: snowball all the same
C20_Witness ==
    /\ recommendation # NoResult
    /\ profile.primary_goal = AVOID_DEFAULT
    /\ profile.stress_level = 1
    /\ Cardinality({ i \in 1..Len(debts) : debts[i].balance < 2000000 }) = 1
    /\ result[1].total_interest > result[2].total_interest
    /\ recommendation.recommended_strategy = SNOWBALL

\* C21: once the recommend route has taken its confidence step, it holds a
\* confidence score, and that score lies within [0,100].
C21_ScoreReturned ==
    confidence # NoResult =>
      /\ confidence.status = "ok"
      /\ confidence.score >= 0
      /\ confidence.score <= 1000000

\* the call of Scenario A: the debt of 1200 at 12% with a monthly payment
\* of 100
ScenarioACall ==
    /\ debts = <<[id |-> "A", balance |-> 1200000, apr |-> 12,
                  minimum_payment |-> 100000]>>
    /\ monthly_payment[1] = 100000

\* Scenario A's call has returned a scenario with the debt paid off
ScenarioAReturned ==
    /\ pc[1] = "done"
    /\ result[1].total_months * 10 < MAX_MONTHS
    /\ \A i \in 1..Len(working_debts[1]) :
          working_debts[1][i].paid_off /\ working_debts[1][i].remaining_balance = 0
    /\ result[1].debt_summaries[1].months_to_payoff = result[1].total_months
    /\ result[1].total_interest > 0
    /\ result[1].total_interest < 100000

\* C22: simulating one debt of 1200 at 12% with minimum payment 100 and
\* monthly payment 100 ends: it returns a scenario in which the debt is paid
\* off, in far fewer months than the ceiling of 600, with total interest
\* below 100.
C22_ScenarioATerminates == ScenarioACall => <>ScenarioAReturned

\* Scenario A has returned after 13 months
C22_Witness ==
    /\ ScenarioACall
    /\ pc[1] = "done"
    /\ result[1].total_months = 13
    /\ result[1].total_interest < 100000
    /\ result[1].total_paid = 1200000 + result[1].total_interest

\* C23: no step of a simulate call changes the caller's debt list (its
\* length, its order, any debt's balance, APR or minimum payment) or the
\* other arguments, and a call that has failed has left no working state
\* behind: no working copy, no schedule row, no running total.
C23_InputsUnchanged ==
    [][ /\ debts' = debts
        /\ custom_order' = custom_order
        /\ monthly_payment' = monthly_payment
        /\ pc'[1] = "error" =>
              /\ result'[1].status = "error"
              /\ working_debts'[1] = <<>>
              /\ schedule'[1] = <<>>
              /\ total_interest'[1] = 0 /\ total_paid'[1] = 0 ]_vars

\* a call has returned a scenario for debts it paid in another order than
\* the caller's
C23_Witness ==
    /\ pc[1] = "done"
    /\ Len(debts) = 2
    /\ working_debts[1][1].debt = debts[2]
    /\ working_debts[1][1].remaining_balance # debts[2].balance
    /\ result[1].debt_summaries[1].original_balance = debts[2].balance

\* what a call with this payment does when it runs alone, from the working
\* copies on: the months in turn, until all debts are paid off or the
\* given number of months is reached
RECURSIVE RunAloneFrom(_, _, _, _)
RunAloneFrom(st, month, payment, ceiling) ==
    IF Unpaid(st.working_debts) = {} \/ month >= ceiling
    THEN [st EXCEPT !.remaining_payment = month]
    ELSE CHOOSE out \in
           { RunAloneFrom(after, month + 1, payment, ceiling) :
               after \in { SurplusStep(mid, month + 1) :
                 mid \in { MinimumPhaseFrom(
                               [s EXCEPT !.remaining_payment = payment],
                               1, month + 1, start_date + 30 * (month + 1)) :
                           s \in {st} } } } : TRUE

\* its state after at most so many months; the field remaining_payment
\* holds the month count
RunAloneUpTo(payment, ceiling) ==
    LET ordered_debts == order_debts_by_strategy(debts, strategy, custom_order)
    IN RunAloneFrom(
           [working_debts |-> [i \in 1..Len(ordered_debts) |->
                                  WorkingCopy(ordered_debts[i])],
            schedule |-> <<>>, total_interest |-> 0, total_paid |-> 0,
            remaining_payment |-> 0],
           0, payment, ceiling)

\* its final state
RunAlone(payment) == RunAloneUpTo(payment, MAX_MONTHS)

\* C24: when two simulate calls run at once on the same debt list, however
\* their steps interleave, each call that has ended has returned exactly
\* what a call with its arguments returns when run alone (the same
\* schedule, totals, months and debt summaries, or the same error).
C24_AsIfAlone ==
    \A c \in Calls :
      /\ pc[c] = "error" =>
            /\ debts = <<>> \/ monthly_payment[c] < SumMin(debts)
            /\ result[c].status = "error"
      /\ pc[c] = "done" =>
            LET alone == RunAlone(monthly_payment[c])
            IN /\ ~(debts = <<>> \/ monthly_payment[c] < SumMin(debts))
               /\ result[c].schedule = alone.schedule
               /\ result[c].total_months = alone.remaining_payment
               /\ result[c].total_interest = alone.total_interest
               /\ result[c].total_paid = alone.total_paid
               /\ result[c].debt_summaries =
                    [i \in 1..Len(alone.working_debts) |->
                         DebtSummary(alone.working_debts[i], start_date)]

\* call 1 has returned while call 2, begun with another payment, is still
\* in the middle of a month
C24_Witness ==
    /\ pc[1] = "done"
    /\ pc[2] = "surplus"
    /\ Len(debts) = 2
    /\ monthly_payment[1] # monthly_payment[2]
    /\ current_month[2] >= 1
    /\ current_month[2] < result[1].total_months
    /\ schedule[2] # <<>>
    /\ result[1].schedule = RunAlone(monthly_payment[1]).schedule

\* the schedule rows of a debt
RowsOfDebt(sched, id) == { k \in 1..Len(sched) : sched[k].debt_id = id }

\* the last month at whose start the working copy was still unpaid
LastUnpaidMonth(wd, months) == IF wd.paid_off THEN wd.months_to_payoff ELSE months

\* C25: in a returned scenario for debts with distinct ids, each debt has
\* exactly one schedule row for every month at whose start it was still
\* unpaid and no row for a later month, surplus payments included.
C25_OneRowPerDebtMonth ==
    (pc[1] = "done" /\ Injective([i \in 1..Len(debts) |-> debts[i].id])) =>
      \A i \in 1..Len(working_debts[1]) :
        LET wd == working_debts[1][i]
            last == LastUnpaidMonth(wd, result[1].total_months)
            rows == RowsOfDebt(result[1].schedule, wd.debt.id)
        IN /\ Cardinality(rows) = last
           /\ { result[1].schedule[k].month : k \in rows } = 1..last

\* the principal booked for a debt in a month, over its rows
RECURSIVE PrincipalOf(_, _, _, _)
PrincipalOf(sched, id, month, k) ==
    IF k = 0 \/ sched[k].month # month THEN 0
    ELSE (IF sched[k].debt_id = id THEN sched[k].principal ELSE 0)
         + PrincipalOf(sched, id, month, k - 1)

\* the surplus step of call 1 applies the whole unspent amount, capped at
\* the target's remaining balance, as principal to the first unpaid debt
SurplusWhollyApplied ==
    LET wds == working_debts[1]
        t == CHOOSE i \in Unpaid(wds) : \A j \in Unpaid(wds) : i <= j
        extra == Min2(remaining_payment[1], wds[t].remaining_balance)
        left == wds[t].remaining_balance - extra
        sched == schedule[1]
    IN /\ working_debts'[1][t].remaining_balance = (IF left <= EPS THEN 0 ELSE left)
       /\ working_debts'[1][t].total_paid = wds[t].total_paid + extra
       /\ \A i \in 1..Len(wds) : i # t => working_debts'[1][i] = wds[i]
       /\ total_paid'[1] = total_paid[1] + extra
       /\ Len(schedule'[1]) = Len(sched)
       /\ PrincipalOf(schedule'[1], wds[t].debt.id, current_month[1], Len(sched))
            = PrincipalOf(sched, wds[t].debt.id, current_month[1], Len(sched)) + extra

\* C26 as stated: in any month in which, after the minimum-payment phase,
\* the unspent part of the monthly payment is positive and some debt is
\* still unpaid, the whole unspent amount (capped at the target's remaining
\* balance) is applied as extra principal to the first unpaid debt in
\* strategy order.
C26_AnyPositiveSurplusApplied ==
    [][ (pc[1] = "surplus" /\ remaining_payment[1] > 0
           /\ Unpaid(working_debts[1]) # {})
          => SurplusWhollyApplied ]_vars

\* C26, amended: the same for an unspent part above 0.01; an unspent part
\* of at most 0.01 is not applied, and the month's rows, balances and totals
\* stay as the minimum-payment phase left them.
C26_SurplusAboveCentApplied ==
    [][ /\ (pc[1] = "surplus" /\ remaining_payment[1] > EPS
              /\ Unpaid(working_debts[1]) # {})
             => SurplusWhollyApplied
        /\ (pc[1] = "surplus" /\ remaining_payment[1] <= EPS)
             => UNCHANGED <<working_debts, schedule, total_paid, total_interest>>
      ]_vars

\* month 1 is over, and the debt that was first in strategy order and still
\* unpaid has received the whole surplus of 100 on top of its minimum
\* payment, in its one row of the month
C26_Witness ==
    /\ pc[1] = "loop"
    /\ current_month[1] = 1
    /\ Len(working_debts[1]) = 2
    /\ remaining_payment[1] = 100000
    /\ ~working_debts[1][1].paid_off
    /\ \E k \in 1..Len(schedule[1]) :
          /\ schedule[1][k].debt_id = working_debts[1][1].debt.id
          /\ schedule[1][k].payment =
               working_debts[1][1].debt.minimum_payment + 100000
    /\ working_debts[1][2].total_paid = working_debts[1][2].debt.minimum_payment

\* the principal booked in a month, over the month's rows (the last ones of
\* the schedule)
RECURSIVE MonthPrincipal(_, _, _)
MonthPrincipal(sched, month, k) ==
    IF k = 0 \/ sched[k].month # month THEN 0
    ELSE sched[k].principal + MonthPrincipal(sched, month, k - 1)

\* C27: in a call whose monthly payment covers the sum of the minimum
\* payments, every simulated month books some principal (the payment is
\* never consumed entirely by interest), and the call returns with every
\* debt paid off, before the ceiling of 600 months.
C27_PrincipalDecreasesEveryMonth ==
    (pc[1] \in {"loop", "done"} /\ current_month[1] >= 1
       /\ monthly_payment[1] >= SumMin(debts)) =>
      /\ MonthPrincipal(schedule[1], current_month[1], Len(schedule[1])) > 0
      /\ pc[1] = "done" =>
            /\ Unpaid(working_debts[1]) = {}
            /\ result[1].total_months < MAX_MONTHS

\* the payments recorded for a month, over the month's rows (the last ones
\* of the schedule)
RECURSIVE MonthPayments(_, _, _)
MonthPayments(sched, month, k) ==
    IF k = 0 \/ sched[k].month # month THEN 0
    ELSE sched[k].payment + MonthPayments(sched, month, k - 1)

\* C28: for debts with distinct ids and a custom order that repeats no id,
\* the payments recorded for a simulated month, minimum payments and
\* surplus together, never exceed the monthly payment (rows of earlier
\* months are never changed, so this covers every month of the schedule).
C28_WithinBudget ==
    (Started(1) /\ current_month[1] >= 1
       /\ Injective([i \in 1..Len(debts) |-> debts[i].id])
       /\ Injective(custom_order)) =>
      /\ MonthPayments(schedule[1], current_month[1], Len(schedule[1]))
           <= monthly_payment[1]
      /\ pc[1] = "surplus" =>
           MonthPayments(schedule[1], current_month[1], Len(schedule[1]))
             = monthly_payment[1] - remaining_payment[1]

\* a month of a custom-order call in which minimum payments and surplus use
\* up the monthly payment exactly
C28_Witness ==
    /\ pc[1] = "loop"
    /\ current_month[1] >= 1
    /\ strategy = CUSTOM
    /\ Len(custom_order) = 2 /\ Injective(custom_order)
    /\ Len(debts) = 2
    /\ remaining_payment[1] > EPS
    /\ MonthPayments(schedule[1], current_month[1], Len(schedule[1]))
         = monthly_payment[1]

\* a call at this payment, which lies in the optimizer's bracket, pays all
\* debts off within 1 month of the target (a run that is not over 2 months
\* after the target does not)
ReachesTarget(payment) ==
    /\ payment >= SumMin(debts)
    /\ payment <= SumBalance(debts)
    /\ LET alone == RunAloneUpTo(payment, target_months + 2)
       IN /\ Unpaid(alone.working_debts) = {}
          /\ Abs(alone.remaining_payment - target_months) <= 1

\* payments of the bracket to try: its ends and its middle
ProbePayments ==
    {SumMin(debts), (SumMin(debts) + SumBalance(debts)) \div 2, SumBalance(debts)}

\* C29: if some payment between the sum of the minimum payments and the sum
\* of the balances makes simulate finish within 1 month of the target, then
\* the simulation at the payment the optimizer has returned finishes within
\* 1 month of the target as well.
C29_OptimizerFindsTarget ==
    (opt_pc = "final" /\ Finished(2) /\ \E p \in ProbePayments : ReachesTarget(p)) =>
      /\ pc[2] = "done"
      /\ Abs(result[2].total_months - target_months) <= 1

RECURSIVE SumSummaries(_, _)
SumSummaries(sums, field) ==
    IF sums = <<>> THEN 0
    ELSE (IF field = "total_paid" THEN sums[1].total_paid ELSE sums[1].total_interest)
         + SumSummaries(Tail(sums), field)

\* the month of the last schedule row of a debt (0 without rows)
LastRowMonth(sched, id) ==
    LET rows == RowsOfDebt(sched, id)
    IN IF rows = {} THEN 0
       ELSE sched[CHOOSE k \in rows : \A j \in rows : j <= k].month

\* C30: in every returned scenario there is exactly one debt summary per
\* input debt, total_months is the largest months_to_payoff of the
\* summaries, each summary's months_to_payoff is the month of its debt's
\* last schedule row, and the summaries' total_paid and total_interest add
\* up to the scenario's.
C30_AggregatesConsistent ==
    pc[1] = "done" =>
      LET sums == result[1].debt_summaries
      IN /\ Len(sums) = Len(debts)
         /\ \A i \in 1..Len(debts) :
               Cardinality({ j \in 1..Len(sums) : sums[j].debt_id = debts[i].id }) = 1
         /\ \A j \in 1..Len(sums) :
               /\ sums[j].months_to_payoff <= result[1].total_months
               /\ sums[j].months_to_payoff =
                    LastRowMonth(result[1].schedule, sums[j].debt_id)
         /\ \E j \in 1..Len(sums) :
               sums[j].months_to_payoff = result[1].total_months
         /\ SumSummaries(sums, "total_paid") = result[1].total_paid
         /\ SumSummaries(sums, "total_interest") = result[1].total_interest

=============================================================================
